---- MODULE Spec2Model ----
(***************************************************************************)
(* Model of prql-compiler/src/ast/ast_fold.rs: the AstFold trait (one      *)
(* overridable method per syntactic category, each with a default body)    *)
(* and the free default-recursion functions the default bodies call.       *)
(*                                                                         *)
(* A fold is a function from an owned tree to Result<tree>.  It is         *)
(* modelled as an operator taking the pass (`fold`), the node and the log  *)
(* of calls made so far, and returning a Result record                     *)
(*     [ok, val, err, log].                                                *)
(* The log is instrumentation: one entry per call, saying which function   *)
(* was called, on which node, and whether the call went through the trait  *)
(* object (`fold.fold_x(..)`, overridable) or straight to the free         *)
(* function (`fold_x(fold, ..)`, not overridable).  Rust's `?` is Try: an  *)
(* Err leaves the function at once.                                        *)
(***************************************************************************)
EXTENDS Integers, Sequences, FiniteSets, TLC

VARIABLES
    tree,   \* the input handed to the pass: [root |-> "Expr"|"Stmt"|"Query", node |-> ..]
    pass,   \* the AstFold implementer: which trait methods it overrides
    pc,     \* "ready" before the fold is run, "done" after
    out     \* the Result the fold returned (NotRun before)

vars == <<tree, pass, pc, out>>

---------------------------------------------------------------------------
(* Result<T> and Option<T> *)

Nil == [tag |-> "Nil"]
NoErr == [tag |-> "NoErr"]
NotRun == [ok |-> FALSE, val |-> Nil, err |-> NoErr, log |-> <<>>]

Ok(v, log) == [ok |-> TRUE, val |-> v, err |-> NoErr, log |-> log]
Err(e, log) == [ok |-> FALSE, val |-> Nil, err |-> e, log |-> log]

None == [tag |-> "None"]
Some(v) == [tag |-> "Some", val |-> v]

\* One entry of the call log.
Call(m, via, over, arg) == [m |-> m, via |-> via, over |-> over, arg |-> arg]

---------------------------------------------------------------------------
(* The passes: implementers of AstFold.  A pass is the set of choices it   *)
(* makes for the methods it overrides; every other method is the default.  *)

Marker == "!"
Unresolvable == {<<"bad1">>, <<"bad2">>}
Unresolved(ident) == [tag |-> "Unresolved", ident |-> ident]

---------------------------------------------------------------------------
(* The trait methods (named AstFold_fold_x) and the free functions.        *)

RECURSIVE AstFold_fold_stmt(_, _, _)
RECURSIVE AstFold_fold_expr(_, _, _)
RECURSIVE AstFold_fold_expr_kind(_, _, _)
RECURSIVE AstFold_fold_exprs(_, _, _)
RECURSIVE AstFold_fold_table(_, _, _)
RECURSIVE AstFold_fold_transform(_, _, _)
RECURSIVE AstFold_fold_transforms(_, _, _)
RECURSIVE AstFold_fold_pipeline(_, _, _)
RECURSIVE AstFold_fold_func_def(_, _, _)
RECURSIVE AstFold_fold_func_call(_, _, _)
RECURSIVE AstFold_fold_func_curry(_, _, _)
RECURSIVE AstFold_fold_table_ref(_, _, _)
RECURSIVE AstFold_fold_interpolate_item(_, _, _)
RECURSIVE AstFold_fold_column_sort(_, _, _)
RECURSIVE AstFold_fold_column_sorts(_, _, _)
RECURSIVE AstFold_fold_join_filter(_, _, _)
RECURSIVE AstFold_fold_type(_, _, _)
RECURSIVE AstFold_fold_windowed(_, _, _)
RECURSIVE AstFold_fold_query(_, _, _)
RECURSIVE fold_expr_kind(_, _, _)
RECURSIVE fold_stmt_kind(_, _, _)
RECURSIVE fold_windowed(_, _, _)
RECURSIVE fold_range(_, _, _)
RECURSIVE fold_query(_, _, _)
RECURSIVE fold_transforms(_, _, _)
RECURSIVE fold_pipeline(_, _, _)
RECURSIVE fold_optional_box(_, _, _)
RECURSIVE fold_interpolate_item(_, _, _)
RECURSIVE fold_column_sort(_, _, _)
RECURSIVE fold_transform(_, _, _)
RECURSIVE fold_transform_kind(_, _, _)
RECURSIVE fold_join_filter(_, _, _)
RECURSIVE fold_func_call(_, _, _)
RECURSIVE fold_func_curry(_, _, _)
RECURSIVE fold_table_ref(_, _, _)
RECURSIVE fold_func_def(_, _, _)
RECURSIVE fold_func_param(_, _, _)
RECURSIVE fold_type(_, _, _)
RECURSIVE closure(_, _, _, _)
RECURSIVE try_collect(_, _, _, _)

\* Rust's `expr?`: r is evaluated (once); an Err is returned at once, an Ok is
\* handed to the rest of the function, K.
The(S) == CHOOSE v \in S : TRUE
Try(r, K(_)) == The({ IF ~v.ok THEN v ELSE K(v) : v \in {r} })

\* fn fold_ident(&mut self, ident) -> Result<Ident> { Ok(ident) }, and the
\* overrides of the passes: "mark" appends a marker to every identifier,
\* "resolve" does the same and fails on a name it cannot resolve.
AstFold_fold_ident(fold, ident, log) ==
    LET l == Append(log, Call("fold_ident", "trait", fold.ident # "default", ident))
    IN  CASE fold.ident = "default" -> Ok(ident, l)
          [] fold.ident = "mark" -> Ok(Append(ident, Marker), l)
          [] fold.ident = "resolve" ->
                IF ident \in Unresolvable
                THEN Err(Unresolved(ident), l)
                ELSE Ok(Append(ident, Marker), l)

\* A collect that does not stop at the first Err: every element is handed to
\* the closure, and the first Err is returned at the end.
try_collect_all(f, fold, xs, log) ==
    IF xs = <<>>
    THEN Ok(<<>>, log)
    ELSE The({ The({ IF ~h.ok THEN Err(h.err, t.log)
                     ELSE IF ~t.ok THEN t
                     ELSE Ok(<<h.val>> \o t.val, t.log) :
                     t \in {try_collect(f, fold, Tail(xs), h.log)} }) :
               h \in {closure(f, fold, Head(xs), log)} })

\* iter.map(closure).collect::<Result<Vec<_>>>() and .try_collect(): the
\* closure is applied to the elements in order and the first Err ends the
\* iteration and is the result.
try_collect(f, fold, xs, log) ==
    IF xs = <<>>
    THEN Ok(<<>>, log)
    ELSE Try(closure(f, fold, Head(xs), log), LAMBDA h :
         Try(try_collect(f, fold, Tail(xs), h.log), LAMBDA t :
         Ok(<<h.val>> \o t.val, t.log)))

\* opt.map(|n| ..).transpose(): the Ok value of a present option is Some.
Transpose(r) == Try(r, LAMBDA v : Ok(Some(v.val), v.log))

AstFold_fold_stmt(fold, stmt, log) ==
    Try(fold_stmt_kind(fold, stmt.kind, Append(log, Call("fold_stmt", "trait", FALSE, stmt))),
        LAMBDA kind : Ok([stmt EXCEPT !.kind = kind.val], kind.log))

AstFold_fold_stmts(fold, stmts, log) ==
    try_collect("fold_stmt", fold, stmts, Append(log, Call("fold_stmts", "trait", FALSE, stmts)))

AstFold_fold_expr(fold, expr, log) ==
    Try(AstFold_fold_expr_kind(fold, expr.kind, Append(log, Call("fold_expr", "trait", FALSE, expr))),
        LAMBDA kind : Ok([expr EXCEPT !.kind = kind.val], kind.log))

AstFold_fold_expr_kind(fold, expr_kind, log) ==
    fold_expr_kind(fold, expr_kind, Append(log, Call("fold_expr_kind", "trait", FALSE, expr_kind)))

AstFold_fold_exprs(fold, exprs, log) ==
    try_collect("fold_expr", fold, exprs, Append(log, Call("fold_exprs", "trait", FALSE, exprs)))

AstFold_fold_table(fold, table, log) ==
    Try(AstFold_fold_ident(fold, table.name, Append(log, Call("fold_table", "trait", FALSE, table))),
        LAMBDA name :
    Try(AstFold_fold_expr(fold, table.pipeline, name.log), LAMBDA pipeline :
    Ok([id |-> table.id, name |-> name.val, pipeline |-> pipeline.val], pipeline.log)))

\* The overridable transform method.  Its default body is the free function;
\* the "rewrite" pass runs the default recursion and then turns every Select
\* into a Derive of the same assignments.
AstFold_fold_transform(fold, transform, log) ==
    Try(fold_transform(fold, transform,
                       Append(log, Call("fold_transform", "trait", fold.transform # "default", transform))),
        LAMBDA r :
    IF fold.transform = "rewrite" /\ r.val.kind.tag = "Select"
    THEN Ok([r.val EXCEPT !.kind = [tag |-> "Derive", assigns |-> r.val.kind.assigns]], r.log)
    ELSE r)

AstFold_fold_transforms(fold, transforms, log) ==
    fold_transforms(fold, transforms, Append(log, Call("fold_transforms", "trait", FALSE, transforms)))

AstFold_fold_pipeline(fold, pipeline, log) ==
    fold_pipeline(fold, pipeline, Append(log, Call("fold_pipeline", "trait", FALSE, pipeline)))

AstFold_fold_func_def(fold, function, log) ==
    fold_func_def(fold, function, Append(log, Call("fold_func_def", "trait", FALSE, function)))

AstFold_fold_func_call(fold, func_call, log) ==
    fold_func_call(fold, func_call, Append(log, Call("fold_func_call", "trait", FALSE, func_call)))

AstFold_fold_func_curry(fold, func_curry, log) ==
    fold_func_curry(fold, func_curry, Append(log, Call("fold_func_curry", "trait", FALSE, func_curry)))

AstFold_fold_table_ref(fold, table_ref, log) ==
    fold_table_ref(fold, table_ref, Append(log, Call("fold_table_ref", "trait", FALSE, table_ref)))

AstFold_fold_interpolate_item(fold, sstring_item, log) ==
    fold_interpolate_item(fold, sstring_item,
                          Append(log, Call("fold_interpolate_item", "trait", FALSE, sstring_item)))

AstFold_fold_column_sort(fold, column_sort, log) ==
    fold_column_sort(fold, column_sort, Append(log, Call("fold_column_sort", "trait", FALSE, column_sort)))

AstFold_fold_column_sorts(fold, columns, log) ==
    try_collect("fold_column_sort", fold, columns,
                Append(log, Call("fold_column_sorts", "trait", FALSE, columns)))

AstFold_fold_join_filter(fold, f, log) ==
    fold_join_filter(fold, f, Append(log, Call("fold_join_filter", "trait", FALSE, f)))

\* The overridable type method.  The "spy" pass overrides it only to be told
\* of every type it is handed (the log entry has over = TRUE) and then
\* delegates to the default recursion, as the default body does.
AstFold_fold_type(fold, t, log) ==
    fold_type(fold, t, Append(log, Call("fold_type", "trait", fold.ty # "default", t)))

AstFold_fold_windowed(fold, windowed, log) ==
    fold_windowed(fold, windowed, Append(log, Call("fold_windowed", "trait", FALSE, windowed)))

AstFold_fold_query(fold, query, log) ==
    fold_query(fold, query, Append(log, Call("fold_query", "trait", FALSE, query)))

\* The closures handed to map(): f names the closure's body.
closure(f, fold, x, log) ==
    CASE f = "fold_stmt" -> AstFold_fold_stmt(fold, x, log)
      [] f = "fold_expr" -> AstFold_fold_expr(fold, x, log)
      [] f = "fold_column_sort" -> AstFold_fold_column_sort(fold, x, log)
      [] f = "fold_interpolate_item" -> AstFold_fold_interpolate_item(fold, x, log)
      [] f = "fold_transform" -> AstFold_fold_transform(fold, x, log)
      \* |t| fold_type(fold, t)
      [] f = "fold_type" -> fold_type(fold, x, Append(log, Call("fold_type", "direct", FALSE, x)))
      \* |t| Ok(Table { id: t.id, name: t.name, pipeline: fold.fold_transforms(t.pipeline)? })
      [] f = "table" ->
            Try(AstFold_fold_transforms(fold, x.pipeline, log), LAMBDA pipeline :
            Ok([id |-> x.id, name |-> x.name, pipeline |-> pipeline.val], pipeline.log))
      \* |(name, expr)| fold.fold_expr(expr).map(|e| (name, e))
      [] f = "named_arg" ->
            Try(AstFold_fold_expr(fold, x[2], log), LAMBDA e : Ok(<<x[1], e.val>>, e.log))
      \* |expr| expr.map(|e| fold.fold_expr(e)).transpose()
      [] f = "curry_slot" ->
            IF x.tag = "None" THEN Ok(None, log)
            ELSE Transpose(AstFold_fold_expr(fold, x.val, log))
      \* |param| Ok(FuncParam { default_value: param.default_value.map(..).transpose()?, ..param })
      [] f = "func_param" ->
            Try(IF x.default_value.tag = "None" THEN Ok(None, log)
                ELSE Transpose(AstFold_fold_expr(fold, x.default_value.val, log)),
                LAMBDA default_value : Ok([x EXCEPT !.default_value = default_value.val],
                                          default_value.log))

\* A fold_expr_kind that rewrites the type of Type(t) by the free function.
fold_expr_kind_type_direct(fold, expr_kind, log) ==
    LET tag == expr_kind.tag
    IN  CASE tag = "Ident" ->
                Try(AstFold_fold_ident(fold, expr_kind.ident, log), LAMBDA ident :
                Ok([tag |-> "Ident", ident |-> ident.val], ident.log))
          [] tag = "Binary" ->
                Try(AstFold_fold_expr(fold, expr_kind.left, log), LAMBDA left :
                Try(AstFold_fold_expr(fold, expr_kind.right, left.log), LAMBDA right :
                Ok([tag |-> "Binary", op |-> expr_kind.op,
                    left |-> left.val, right |-> right.val], right.log)))
          [] tag = "Unary" ->
                Try(AstFold_fold_expr(fold, expr_kind.expr, log), LAMBDA expr :
                Ok([tag |-> "Unary", op |-> expr_kind.op, expr |-> expr.val], expr.log))
          [] tag = "List" ->
                Try(AstFold_fold_exprs(fold, expr_kind.items, log), LAMBDA items :
                Ok([tag |-> "List", items |-> items.val], items.log))
          [] tag = "Range" ->
                Try(fold_range(fold, expr_kind.range, log), LAMBDA range :
                Ok([tag |-> "Range", range |-> range.val], range.log))
          [] tag = "Pipeline" ->
                Try(AstFold_fold_pipeline(fold, expr_kind.pipeline, log), LAMBDA p :
                Ok([tag |-> "Pipeline", pipeline |-> p.val], p.log))
          [] tag \in {"SString", "FString"} ->
                Try(try_collect("fold_interpolate_item", fold, expr_kind.items, log), LAMBDA items :
                Ok([tag |-> tag, items |-> items.val], items.log))
          [] tag = "FuncCall" ->
                Try(AstFold_fold_func_call(fold, expr_kind.func_call, log), LAMBDA func_call :
                Ok([tag |-> "FuncCall", func_call |-> func_call.val], func_call.log))
          [] tag = "FuncCurry" ->
                Try(AstFold_fold_func_curry(fold, expr_kind.func_curry, log), LAMBDA func_curry :
                Ok([tag |-> "FuncCurry", func_curry |-> func_curry.val], func_curry.log))
          [] tag = "Windowed" ->
                Try(AstFold_fold_windowed(fold, expr_kind.window, log), LAMBDA window :
                Ok([tag |-> "Windowed", window |-> window.val], window.log))
          [] tag = "Type" ->
                Try(fold_type(fold, expr_kind.ty,
                              Append(log, Call("fold_type", "direct", FALSE, expr_kind.ty))),
                    LAMBDA t :
                Ok([tag |-> "Type", ty |-> t.val], t.log))
          [] tag = "ResolvedPipeline" ->
                Try(AstFold_fold_transforms(fold, expr_kind.transforms, log), LAMBDA transforms :
                Ok([tag |-> "ResolvedPipeline", transforms |-> transforms.val], transforms.log))
          \* None of these capture variables, so we don't need to fold them.
          [] tag \in {"Empty", "Literal", "Interval"} -> Ok(expr_kind, log)

fold_expr_kind(fold, expr_kind, log) ==
    LET tag == expr_kind.tag
    IN  CASE tag = "Ident" ->
                Try(AstFold_fold_ident(fold, expr_kind.ident, log), LAMBDA ident :
                Ok([tag |-> "Ident", ident |-> ident.val], ident.log))
          [] tag = "Binary" ->
                Try(AstFold_fold_expr(fold, expr_kind.left, log), LAMBDA left :
                Try(AstFold_fold_expr(fold, expr_kind.right, left.log), LAMBDA right :
                Ok([tag |-> "Binary", op |-> expr_kind.op,
                    left |-> left.val, right |-> right.val], right.log)))
          [] tag = "Unary" ->
                Try(AstFold_fold_expr(fold, expr_kind.expr, log), LAMBDA expr :
                Ok([tag |-> "Unary", op |-> expr_kind.op, expr |-> expr.val], expr.log))
          [] tag = "List" ->
                Try(AstFold_fold_exprs(fold, expr_kind.items, log), LAMBDA items :
                Ok([tag |-> "List", items |-> items.val], items.log))
          [] tag = "Range" ->
                Try(fold_range(fold, expr_kind.range, log), LAMBDA range :
                Ok([tag |-> "Range", range |-> range.val], range.log))
          [] tag = "Pipeline" ->
                Try(AstFold_fold_pipeline(fold, expr_kind.pipeline, log), LAMBDA p :
                Ok([tag |-> "Pipeline", pipeline |-> p.val], p.log))
          [] tag \in {"SString", "FString"} ->
                Try(try_collect("fold_interpolate_item", fold, expr_kind.items, log), LAMBDA items :
                Ok([tag |-> tag, items |-> items.val], items.log))
          [] tag = "FuncCall" ->
                Try(AstFold_fold_func_call(fold, expr_kind.func_call, log), LAMBDA func_call :
                Ok([tag |-> "FuncCall", func_call |-> func_call.val], func_call.log))
          [] tag = "FuncCurry" ->
                Try(AstFold_fold_func_curry(fold, expr_kind.func_curry, log), LAMBDA func_curry :
                Ok([tag |-> "FuncCurry", func_curry |-> func_curry.val], func_curry.log))
          [] tag = "Windowed" ->
                Try(AstFold_fold_windowed(fold, expr_kind.window, log), LAMBDA window :
                Ok([tag |-> "Windowed", window |-> window.val], window.log))
          [] tag = "Type" ->
                Try(AstFold_fold_type(fold, expr_kind.ty, log), LAMBDA t :
                Ok([tag |-> "Type", ty |-> t.val], t.log))
          [] tag = "ResolvedPipeline" ->
                Try(AstFold_fold_transforms(fold, expr_kind.transforms, log), LAMBDA transforms :
                Ok([tag |-> "ResolvedPipeline", transforms |-> transforms.val], transforms.log))
          \* None of these capture variables, so we don't need to fold them.
          [] tag \in {"Empty", "Literal", "Interval"} -> Ok(expr_kind, log)

fold_stmt_kind(fold, stmt_kind, log) ==
    LET tag == stmt_kind.tag
    IN  CASE tag = "FuncDef" ->
                Try(AstFold_fold_func_def(fold, stmt_kind.func, log), LAMBDA func :
                Ok([tag |-> "FuncDef", func |-> func.val], func.log))
          [] tag = "TableDef" ->
                Try(AstFold_fold_table(fold, stmt_kind.table, log), LAMBDA table :
                Ok([tag |-> "TableDef", table |-> table.val], table.log))
          [] tag = "Pipeline" ->
                Try(AstFold_fold_exprs(fold, stmt_kind.exprs, log), LAMBDA exprs :
                Ok([tag |-> "Pipeline", exprs |-> exprs.val], exprs.log))
          [] tag = "QueryDef" -> Ok(stmt_kind, log)

fold_windowed(fold, window, log) ==
    Try(AstFold_fold_expr(fold, window.expr, log), LAMBDA expr :
    Try(AstFold_fold_exprs(fold, window.group, expr.log), LAMBDA group :
    Try(AstFold_fold_column_sorts(fold, window.sort, group.log), LAMBDA sort :
    Try(fold_range(fold, window.window[2], sort.log), LAMBDA range :
    Ok([expr |-> expr.val, group |-> group.val, sort |-> sort.val,
        window |-> <<window.window[1], range.val>>], range.log)))))

\* A fold_range that rewrites end before start.
fold_range_end_first(fold, range, log) ==
    Try(fold_optional_box(fold, range.end, Append(log, Call("fold_range", "direct", FALSE, range))),
        LAMBDA end :
    Try(fold_optional_box(fold, range.start, end.log), LAMBDA start :
    Ok([start |-> start.val, end |-> end.val], start.log)))

\* A fold_range that rewrites start and copies end.
fold_range_start_only(fold, range, log) ==
    Try(fold_optional_box(fold, range.start, Append(log, Call("fold_range", "direct", FALSE, range))),
        LAMBDA start :
    Ok([start |-> start.val, end |-> range.end], start.log))

fold_range(fold, range, log) ==
    Try(fold_optional_box(fold, range.start, Append(log, Call("fold_range", "direct", FALSE, range))),
        LAMBDA start :
    Try(fold_optional_box(fold, range.end, start.log), LAMBDA end :
    Ok([start |-> start.val, end |-> end.val], end.log)))

\* A fold_query that returns the tables in reverse order.
fold_query_reversed(fold, query, log) ==
    Try(AstFold_fold_transforms(fold, query.main_pipeline, log), LAMBDA main_pipeline :
    Try(try_collect("table", fold, query.tables, main_pipeline.log), LAMBDA tables :
    Ok([def |-> query.def, main_pipeline |-> main_pipeline.val,
        tables |-> [i \in 1..Len(tables.val) |-> tables.val[Len(tables.val) + 1 - i]]],
       tables.log)))

fold_query(fold, query, log) ==
    Try(AstFold_fold_transforms(fold, query.main_pipeline, log), LAMBDA main_pipeline :
    Try(try_collect("table", fold, query.tables, main_pipeline.log), LAMBDA tables :
    Ok([def |-> query.def, main_pipeline |-> main_pipeline.val, tables |-> tables.val],
       tables.log)))

fold_transforms(fold, transforms, log) ==
    try_collect("fold_transform", fold, transforms, log)

fold_pipeline(fold, pipeline, log) ==
    Try(AstFold_fold_exprs(fold, pipeline.exprs, log), LAMBDA exprs :
    Ok([exprs |-> exprs.val], exprs.log))

fold_optional_box(fold, opt, log) ==
    IF opt.tag = "None" THEN Ok(None, log)
    ELSE Transpose(AstFold_fold_expr(fold, opt.val, log))

fold_interpolate_item(fold, interpolate_item, log) ==
    IF interpolate_item.tag = "String"
    THEN Ok(interpolate_item, log)
    ELSE Try(AstFold_fold_expr(fold, interpolate_item.expr, log), LAMBDA expr :
         Ok([tag |-> "Expr", expr |-> expr.val], expr.log))

fold_column_sort(fold, sort_column, log) ==
    Try(AstFold_fold_expr(fold, sort_column.column, log), LAMBDA column :
    Ok([direction |-> sort_column.direction, column |-> column.val], column.log))

fold_transform_kind(fold, kind, log) ==
    LET tag == kind.tag
    IN  CASE tag = "From" ->
                Try(AstFold_fold_table_ref(fold, kind.table, log), LAMBDA table :
                Ok([tag |-> "From", table |-> table.val], table.log))
          [] tag \in {"Derive", "Select"} ->
                Try(AstFold_fold_exprs(fold, kind.assigns, log), LAMBDA assigns :
                Ok([tag |-> tag, assigns |-> assigns.val], assigns.log))
          [] tag = "Aggregate" ->
                Try(AstFold_fold_exprs(fold, kind.assigns, log), LAMBDA assigns :
                Try(AstFold_fold_exprs(fold, kind.by, assigns.log), LAMBDA by :
                Ok([tag |-> "Aggregate", assigns |-> assigns.val, by |-> by.val], by.log)))
          [] tag = "Filter" ->
                Try(AstFold_fold_expr(fold, kind.filter, log), LAMBDA f :
                Ok([tag |-> "Filter", filter |-> f.val], f.log))
          [] tag = "Sort" ->
                Try(AstFold_fold_column_sorts(fold, kind.items, log), LAMBDA items :
                Ok([tag |-> "Sort", items |-> items.val], items.log))
          [] tag = "Join" ->
                Try(AstFold_fold_table_ref(fold, kind.with, log), LAMBDA with :
                Try(AstFold_fold_join_filter(fold, kind.filter, with.log), LAMBDA filter :
                Ok([tag |-> "Join", side |-> kind.side, with |-> with.val,
                    filter |-> filter.val], filter.log)))
          [] tag = "Group" ->
                Try(AstFold_fold_exprs(fold, kind.by, log), LAMBDA by :
                Try(AstFold_fold_transforms(fold, kind.pipeline, by.log), LAMBDA pipeline :
                Ok([tag |-> "Group", by |-> by.val, pipeline |-> pipeline.val], pipeline.log)))
          [] tag = "Window" ->
                Try(fold_range(fold, kind.range, log), LAMBDA range :
                Try(AstFold_fold_transforms(fold, kind.pipeline, range.log), LAMBDA pipeline :
                Ok([tag |-> "Window", kind |-> kind.kind, range |-> range.val,
                    pipeline |-> pipeline.val], pipeline.log)))
          [] tag = "Take" ->
                Try(fold_range(fold, kind.range, log), LAMBDA range :
                Try(AstFold_fold_exprs(fold, kind.by, range.log), LAMBDA by :
                Try(AstFold_fold_column_sorts(fold, kind.sort, by.log), LAMBDA sort :
                Ok([tag |-> "Take", range |-> range.val, by |-> by.val, sort |-> sort.val],
                   sort.log))))
          [] tag = "Unique" -> Ok(kind, log)

fold_transform(fold, transform, log) ==
    Try(fold_transform_kind(fold, transform.kind, log), LAMBDA kind :
    Ok([transform EXCEPT !.kind = kind.val], kind.log))

fold_join_filter(fold, f, log) ==
    Try(AstFold_fold_exprs(fold, f.nodes, log), LAMBDA nodes :
    Ok([tag |-> f.tag, nodes |-> nodes.val], nodes.log))

\* A fold_func_call that hands name to fold_ident.
fold_func_call_name(fold, func_call, log) ==
    Try(AstFold_fold_ident(fold, func_call.name, log), LAMBDA name :
    Try(try_collect("fold_expr", fold, func_call.args, name.log), LAMBDA args :
    Try(try_collect("named_arg", fold, func_call.named_args, args.log), LAMBDA named_args :
    Ok([name |-> name.val, args |-> args.val, named_args |-> named_args.val],
       named_args.log))))

fold_func_call(fold, func_call, log) ==
    Try(try_collect("fold_expr", fold, func_call.args, log), LAMBDA args :
    Try(try_collect("named_arg", fold, func_call.named_args, args.log), LAMBDA named_args :
    Ok([name |-> func_call.name, args |-> args.val, named_args |-> named_args.val],
       named_args.log)))

\* A fold_func_curry that flattens the slots: the unfilled ones are lost.
fold_func_curry_flatten(fold, func_curry, log) ==
    Try(try_collect("fold_expr", fold, func_curry.args, log), LAMBDA args :
    Try(try_collect("curry_slot", fold,
                    SelectSeq(func_curry.named_args, LAMBDA o : o.tag = "Some"), args.log),
        LAMBDA named_args :
    Ok([def_id |-> func_curry.def_id, args |-> args.val, named_args |-> named_args.val],
       named_args.log)))

fold_func_curry(fold, func_curry, log) ==
    Try(try_collect("fold_expr", fold, func_curry.args, log), LAMBDA args :
    Try(try_collect("curry_slot", fold, func_curry.named_args, args.log), LAMBDA named_args :
    Ok([def_id |-> func_curry.def_id, args |-> args.val, named_args |-> named_args.val],
       named_args.log)))

\* A fold_table_ref that rewrites name and loses alias.
fold_table_ref_no_alias(fold, table, log) ==
    Try(AstFold_fold_ident(fold, table.name, log), LAMBDA name :
    Ok([table EXCEPT !.name = name.val, !.alias = None], name.log))

fold_table_ref(fold, table, log) ==
    Try(AstFold_fold_ident(fold, table.name, log), LAMBDA name :
    Try(IF table.alias.tag = "None" THEN Ok(None, name.log)
        ELSE Transpose(AstFold_fold_ident(fold, table.alias.val, name.log)), LAMBDA alias :
    Ok([table EXCEPT !.name = name.val, !.alias = alias.val], alias.log)))

fold_func_def(fold, func_def, log) ==
    Try(AstFold_fold_ident(fold, func_def.name, log), LAMBDA name :
    Try(fold_func_param(fold, func_def.positional_params, name.log), LAMBDA positional_params :
    Try(fold_func_param(fold, func_def.named_params, positional_params.log), LAMBDA named_params :
    Try(AstFold_fold_expr(fold, func_def.body, named_params.log), LAMBDA body :
    Ok([name |-> name.val, positional_params |-> positional_params.val,
        named_params |-> named_params.val, body |-> body.val,
        return_ty |-> func_def.return_ty], body.log)))))

fold_func_param(fold, nodes, log) ==
    try_collect("func_param", fold, nodes, Append(log, Call("fold_func_param", "direct", FALSE, nodes)))

\* A fold_type that rewrites the type argument of a Parameterized through the
\* overridable method.
fold_type_hooked(fold, t, log) ==
    CASE t.tag = "Literal" -> Ok(t, log)
      [] t.tag = "Parameterized" ->
            Try(AstFold_fold_type(fold, t.ty, log), LAMBDA ty :
            Try(AstFold_fold_expr(fold, t.param, ty.log), LAMBDA p :
            Ok([tag |-> "Parameterized", ty |-> ty.val, param |-> p.val], p.log)))
      [] t.tag = "AnyOf" ->
            Try(try_collect("fold_type", fold, t.tys, log), LAMBDA ts :
            Ok([tag |-> "AnyOf", tys |-> ts.val], ts.log))
      [] OTHER -> Ok(t, log)

fold_type(fold, t, log) ==
    CASE t.tag = "Literal" -> Ok(t, log)
      [] t.tag = "Parameterized" ->
            Try(fold_type(fold, t.ty, Append(log, Call("fold_type", "direct", FALSE, t.ty))),
                LAMBDA ty :
            Try(AstFold_fold_expr(fold, t.param, ty.log), LAMBDA p :
            Ok([tag |-> "Parameterized", ty |-> ty.val, param |-> p.val], p.log)))
      [] t.tag = "AnyOf" ->
            Try(try_collect("fold_type", fold, t.tys, log), LAMBDA ts :
            Ok([tag |-> "AnyOf", tys |-> ts.val], ts.log))
      [] OTHER -> Ok(t, log)

---------------------------------------------------------------------------
(* The trees the passes are run on.  Every node kind of the data model is  *)
(* built around a subtree e, with fixed identifiers a, b, c beside it, so  *)
(* that every child position of every composite holds something a pass     *)
(* visits.  MaxDepth bounds how many composites are nested around a leaf.  *)

MaxDepth == 1

Expr(kind, meta) == [kind |-> kind, meta |-> meta]
IdentExpr(name) == Expr([tag |-> "Ident", ident |-> name], 0)
A == IdentExpr(<<"a">>)
B == IdentExpr(<<"b">>)
C == IdentExpr(<<"c">>)
Lit == Expr([tag |-> "Literal", lit |-> 30], 1)

Leaves ==
    { IdentExpr(<<"x">>), IdentExpr(<<"bad1">>), Lit,
      Expr([tag |-> "Empty"], 0), Expr([tag |-> "Interval", n |-> 2, unit |-> "days"], 0) }

Range(start, end) == [start |-> start, end |-> end]
ColumnSort(direction, column) == [direction |-> direction, column |-> column]
StringItem(string) == [tag |-> "String", string |-> string]
ExprItem(e) == [tag |-> "Expr", expr |-> e]
TyLiteral == [tag |-> "Literal", lit |-> "int"]
TyNamed == [tag |-> "Named", name |-> "table"]
Parameterized(ty, param) == [tag |-> "Parameterized", ty |-> ty, param |-> param]
AnyOf(tys) == [tag |-> "AnyOf", tys |-> tys]
TableRef(name, alias, id) == [name |-> name, alias |-> alias, id |-> id]
Transform(kind) == [kind |-> kind, meta |-> 0]
\* An entry of FuncCall.named_args, an ordered mapping from names to
\* expressions: into_iter() yields the entries in the mapping's order.
NamedArg(name, value) == <<name, value>>
FuncParam(name, default_value) == [name |-> name, default_value |-> default_value]
Stmt(kind) == [kind |-> kind, meta |-> 0]

ExprKindsAround(e) ==
    { [tag |-> "Binary", op |-> "+", left |-> e, right |-> B],
      [tag |-> "Binary", op |-> ">", left |-> A, right |-> e],
      [tag |-> "Unary", op |-> "-", expr |-> e],
      [tag |-> "List", items |-> <<A, e, C>>],
      [tag |-> "Range", range |-> Range(Some(e), Some(B))],
      [tag |-> "Range", range |-> Range(None, Some(e))],
      [tag |-> "Pipeline", pipeline |-> [exprs |-> <<A, e, C>>]],
      [tag |-> "SString", items |-> <<StringItem("select "), ExprItem(e), ExprItem(B)>>],
      [tag |-> "FString", items |-> <<ExprItem(A), StringItem("-"), ExprItem(e)>>],
      [tag |-> "FuncCall",
       func_call |-> [name |-> <<"f">>, args |-> <<e, B>>,
                      named_args |-> <<NamedArg("n1", C), NamedArg("n2", A)>>]],
      [tag |-> "FuncCall",
       func_call |-> [name |-> <<"bad2">>, args |-> <<A>>, named_args |-> <<NamedArg("n1", e)>>]],
      [tag |-> "FuncCurry",
       func_curry |-> [def_id |-> 7, args |-> <<e>>, named_args |-> <<None, Some(B), None>>]],
      [tag |-> "FuncCurry",
       func_curry |-> [def_id |-> 8, args |-> <<>>, named_args |-> <<Some(A), None, Some(e)>>]],
      [tag |-> "Windowed",
       window |-> [expr |-> e, group |-> <<A>>, sort |-> <<ColumnSort("asc", B)>>,
                   window |-> <<"rows", Range(Some(C), None)>>]],
      [tag |-> "Windowed",
       window |-> [expr |-> A, group |-> <<B>>, sort |-> <<ColumnSort("desc", C)>>,
                   window |-> <<"range", Range(None, Some(e))>>]],
      [tag |-> "Type", ty |-> Parameterized(TyLiteral, e)],
      [tag |-> "Type", ty |-> AnyOf(<<TyNamed, Parameterized(AnyOf(<<TyLiteral>>), e)>>)] }

ExprsAround(e) == { Expr(k, 0) : k \in ExprKindsAround(e) }

TransformKindsAround(e) ==
    { [tag |-> "Derive", assigns |-> <<A, e, C>>],
      [tag |-> "Select", assigns |-> <<e, IdentExpr(<<"bad2">>)>>],
      [tag |-> "Select", assigns |-> <<e>>],
      [tag |-> "Aggregate", assigns |-> <<A, e>>, by |-> <<B>>],
      [tag |-> "Filter", filter |-> e],
      [tag |-> "Sort", items |-> <<ColumnSort("asc", A), ColumnSort("desc", e)>>],
      [tag |-> "Join", side |-> "left", with |-> TableRef(<<"t">>, Some(<<"u">>), 3),
       filter |-> [tag |-> "On", nodes |-> <<e, B>>]],
      [tag |-> "Join", side |-> "inner", with |-> TableRef(<<"bad2">>, None, 4),
       filter |-> [tag |-> "Using", nodes |-> <<e>>]],
      [tag |-> "Group", by |-> <<e>>, pipeline |-> <<Transform([tag |-> "Unique"])>>],
      [tag |-> "Group", by |-> <<A>>,
       pipeline |-> <<Transform([tag |-> "Filter", filter |-> e]), Transform([tag |-> "Unique"])>>],
      [tag |-> "Window", kind |-> "rows", range |-> Range(Some(e), Some(B)),
       pipeline |-> <<Transform([tag |-> "Select", assigns |-> <<A>>])>>],
      [tag |-> "Window", kind |-> "range", range |-> Range(Some(A), None),
       pipeline |-> <<Transform([tag |-> "Derive", assigns |-> <<B, e>>])>>],
      [tag |-> "Take", range |-> Range(None, Some(e)), by |-> <<A>>,
       sort |-> <<ColumnSort("asc", B)>>],
      [tag |-> "Take", range |-> Range(Some(A), None), by |-> <<B>>,
       sort |-> <<ColumnSort("asc", e)>>] }

LeafTransforms ==
    { Transform([tag |-> "From", table |-> TableRef(<<"employees">>, None, 1)]),
      Transform([tag |-> "From", table |-> TableRef(<<"t">>, Some(<<"bad1">>), 2)]),
      Transform([tag |-> "Unique"]) }

RECURSIVE Exprs(_)
RECURSIVE Transforms(_)

Transforms(d) ==
    LeafTransforms \cup
    UNION { { Transform(k) : k \in TransformKindsAround(e) } : e \in Exprs(d) }

Exprs(d) ==
    IF d = 0 THEN Leaves
    ELSE Leaves
         \cup UNION { ExprsAround(e) : e \in Exprs(d - 1) }
         \cup { Expr([tag |-> "ResolvedPipeline", transforms |-> <<t, Transform([tag |-> "Unique"])>>], 0) :
                t \in Transforms(d - 1) }

StmtKindsAround(e) ==
    { [tag |-> "FuncDef",
       func |-> [name |-> <<"f">>,
                 positional_params |-> <<FuncParam("x", None), FuncParam("y", Some(e))>>,
                 named_params |-> <<FuncParam("z", Some(B))>>,
                 body |-> C, return_ty |-> None]],
      [tag |-> "FuncDef",
       func |-> [name |-> <<"g">>,
                 positional_params |-> <<>>,
                 named_params |-> <<FuncParam("z", Some(A)), FuncParam("w", None)>>,
                 body |-> e, return_ty |-> Some(Parameterized(TyLiteral, B))]],
      [tag |-> "TableDef", table |-> [id |-> 5, name |-> <<"t">>, pipeline |-> e]],
      [tag |-> "Pipeline", exprs |-> <<A, e, C>>],
      [tag |-> "QueryDef", def |-> [dialect |-> "generic"]] }

Stmts(d) == UNION { { Stmt(k) : k \in StmtKindsAround(e) } : e \in Exprs(d) }

Table(id, name, pipeline) == [id |-> id, name |-> name, pipeline |-> pipeline]

QueriesAround(t) ==
    { [def |-> [dialect |-> "generic"], main_pipeline |-> <<t>>, tables |-> <<>>],
      [def |-> [dialect |-> "mssql"],
       main_pipeline |-> <<Transform([tag |-> "From", table |-> TableRef(<<"t1">>, None, 1)]), t>>,
       tables |-> <<Table(1, <<"t1">>, <<Transform([tag |-> "Filter", filter |-> A])>>),
                    Table(2, <<"t2">>, <<t, Transform([tag |-> "Unique"])>>)>>] }

Queries(d) == UNION { QueriesAround(t) : t \in Transforms(d) }

Input(root, node) == [root |-> root, node |-> node]

Inputs ==
    { Input("Expr", e) : e \in Exprs(MaxDepth) }
    \cup { Input("Stmt", s) : s \in Stmts(MaxDepth - 1) }
    \cup { Input("Query", q) : q \in Queries(MaxDepth - 1) }

Pass(ident, ty, transform) == [ident |-> ident, ty |-> ty, transform |-> transform]

Passes ==
    { Pass("default", "default", "default"),
      Pass("mark", "default", "default"),
      Pass("default", "spy", "default"),
      Pass("resolve", "spy", "rewrite") }

---------------------------------------------------------------------------
(* The state machine: a tree and a pass are chosen, and the pass is run on *)
(* the tree through the entry point of the tree's root category.           *)

Init ==
    /\ tree \in Inputs
    /\ pass \in Passes
    /\ pc = "ready"
    /\ out = NotRun

Run(root, r) ==
    /\ pc = "ready"
    /\ tree.root = root
    /\ pc' = "done"
    /\ out' = r
    /\ UNCHANGED <<tree, pass>>

FoldExpr == Run("Expr", AstFold_fold_expr(pass, tree.node, <<>>))

FoldStmt == Run("Stmt", AstFold_fold_stmt(pass, tree.node, <<>>))

FoldQuery == Run("Query", AstFold_fold_query(pass, tree.node, <<>>))

Next == FoldExpr \/ FoldStmt \/ FoldQuery

Spec == Init /\ [][Next]_vars

---------------------------------------------------------------------------
(* What the claims speak of.                                               *)

Done == pc = "done"

Last(s) == s[Len(s)]

\* The identifiers handed to fold_ident, in the order of the calls.
IdentLog(log) ==
    LET calls == SelectSeq(log, LAMBDA c : c.m = "fold_ident")
    IN  [i \in 1..Len(calls) |-> calls[i].arg]

\* The positions of the log at which function m was called.
CallsOf(log, m) == { i \in 1..Len(log) : log[i].m = m }

RECURSIVE IdentsIn(_, _, _)
RECURSIVE IdentsAll(_, _, _)

\* The identifiers of a node of category cat, in the declared order of the
\* fields of the data model (list elements in list order).  The types of a
\* function definition are included when `types` is TRUE.
IdentsIn(cat, x, types) ==
    CASE cat = "Expr" -> IdentsIn("ExprKind", x.kind, types)
      [] cat = "Transform" -> IdentsIn("TransformKind", x.kind, types)
      [] cat = "ExprKind" ->
            CASE x.tag = "Ident" -> <<x.ident>>
              [] x.tag = "Binary" -> IdentsIn("Expr", x.left, types) \o IdentsIn("Expr", x.right, types)
              [] x.tag = "Unary" -> IdentsIn("Expr", x.expr, types)
              [] x.tag = "List" -> IdentsAll("Expr", x.items, types)
              [] x.tag = "Range" -> IdentsIn("Range", x.range, types)
              [] x.tag = "Pipeline" -> IdentsAll("Expr", x.pipeline.exprs, types)
              [] x.tag \in {"SString", "FString"} -> IdentsAll("InterpolateItem", x.items, types)
              [] x.tag = "FuncCall" ->
                    IdentsAll("Expr", x.func_call.args, types)
                    \o IdentsAll("NamedArg", x.func_call.named_args, types)
              [] x.tag = "FuncCurry" ->
                    IdentsAll("Expr", x.func_curry.args, types)
                    \o IdentsAll("OptionExpr", x.func_curry.named_args, types)
              [] x.tag = "Windowed" ->
                    IdentsIn("Expr", x.window.expr, types)
                    \o IdentsAll("Expr", x.window.group, types)
                    \o IdentsAll("ColumnSort", x.window.sort, types)
                    \o IdentsIn("Range", x.window.window[2], types)
              [] x.tag = "Type" -> IdentsIn("Ty", x.ty, types)
              [] x.tag = "ResolvedPipeline" -> IdentsAll("Transform", x.transforms, types)
              [] OTHER -> <<>>
      [] cat = "Range" -> IdentsIn("OptionExpr", x.start, types) \o IdentsIn("OptionExpr", x.end, types)
      [] cat = "OptionExpr" -> IF x.tag = "None" THEN <<>> ELSE IdentsIn("Expr", x.val, types)
      [] cat = "OptionIdent" -> IF x.tag = "None" THEN <<>> ELSE <<x.val>>
      [] cat = "OptionTy" -> IF x.tag = "None" THEN <<>> ELSE IdentsIn("Ty", x.val, types)
      [] cat = "InterpolateItem" -> IF x.tag = "String" THEN <<>> ELSE IdentsIn("Expr", x.expr, types)
      [] cat = "ColumnSort" -> IdentsIn("Expr", x.column, types)
      [] cat = "NamedArg" -> IdentsIn("Expr", x[2], types)
      [] cat = "FuncParam" -> IdentsIn("OptionExpr", x.default_value, types)
      [] cat = "Ty" ->
            CASE x.tag = "Parameterized" -> IdentsIn("Ty", x.ty, types) \o IdentsIn("Expr", x.param, types)
              [] x.tag = "AnyOf" -> IdentsAll("Ty", x.tys, types)
              [] OTHER -> <<>>
      [] cat = "TableRef" -> <<x.name>> \o IdentsIn("OptionIdent", x.alias, types)
      [] cat = "TransformKind" ->
            CASE x.tag = "From" -> IdentsIn("TableRef", x.table, types)
              [] x.tag \in {"Derive", "Select"} -> IdentsAll("Expr", x.assigns, types)
              [] x.tag = "Aggregate" -> IdentsAll("Expr", x.assigns, types) \o IdentsAll("Expr", x.by, types)
              [] x.tag = "Filter" -> IdentsIn("Expr", x.filter, types)
              [] x.tag = "Sort" -> IdentsAll("ColumnSort", x.items, types)
              [] x.tag = "Join" -> IdentsIn("TableRef", x.with, types) \o IdentsAll("Expr", x.filter.nodes, types)
              [] x.tag = "Group" -> IdentsAll("Expr", x.by, types) \o IdentsAll("Transform", x.pipeline, types)
              [] x.tag = "Window" -> IdentsIn("Range", x.range, types) \o IdentsAll("Transform", x.pipeline, types)
              [] x.tag = "Take" ->
                    IdentsIn("Range", x.range, types) \o IdentsAll("Expr", x.by, types)
                    \o IdentsAll("ColumnSort", x.sort, types)
              [] OTHER -> <<>>
      [] cat = "Stmt" ->
            CASE x.kind.tag = "FuncDef" ->
                    <<x.kind.func.name>>
                    \o IdentsAll("FuncParam", x.kind.func.positional_params, types)
                    \o IdentsAll("FuncParam", x.kind.func.named_params, types)
                    \o IdentsIn("Expr", x.kind.func.body, types)
                    \o (IF types THEN IdentsIn("OptionTy", x.kind.func.return_ty, types) ELSE <<>>)
              [] x.kind.tag = "TableDef" ->
                    <<x.kind.table.name>> \o IdentsIn("Expr", x.kind.table.pipeline, types)
              [] x.kind.tag = "Pipeline" -> IdentsAll("Expr", x.kind.exprs, types)
              [] OTHER -> <<>>
      [] cat = "Table" -> IdentsAll("Transform", x.pipeline, types)
      [] cat = "Query" ->
            IdentsAll("Transform", x.main_pipeline, types) \o IdentsAll("Table", x.tables, types)

IdentsAll(cat, xs, types) ==
    IF xs = <<>> THEN <<>>
    ELSE IdentsIn(cat, Head(xs), types) \o IdentsAll(cat, Tail(xs), types)

\* The identifiers of s up to and including the first unresolvable one.
RECURSIVE ThroughFirstUnresolvable(_)
ThroughFirstUnresolvable(s) ==
    IF s = <<>> THEN <<>>
    ELSE IF Head(s) \in Unresolvable THEN <<Head(s)>>
    ELSE <<Head(s)>> \o ThroughFirstUnresolvable(Tail(s))

Marked(ident) == Len(ident) > 0 /\ Last(ident) = Marker

---------------------------------------------------------------------------
(* C1 *)

\* C1 (identity law): the pass that overrides nothing returns Ok of a tree
\* equal to its input, whatever the tree: same variants, same lists in the
\* same order, same metadata, same leaves.
C1_IdentityLaw ==
    (Done /\ pass = Pass("default", "default", "default"))
        => (out.ok /\ out.val = tree.node /\ out.err = NoErr)

C1_Witness ==
    /\ Done
    /\ pass = Pass("default", "default", "default")
    /\ tree.root = "Query"
    /\ Len(tree.node.tables) > 1
    /\ out.val = tree.node

---------------------------------------------------------------------------
(* C2 *)

\* C2 (full coverage): after a pass that overrides only fold_ident, to append
\* a marker, every identifier reachable in the result carries the marker,
\* those in the types of a function definition included.
C2_FullCoverage ==
    (Done /\ pass = Pass("mark", "default", "default"))
        => (out.ok /\ \A i \in DOMAIN IdentsIn(tree.root, out.val, TRUE) :
                          Marked(IdentsIn(tree.root, out.val, TRUE)[i]))

---------------------------------------------------------------------------
(* C3 *)

\* C3 (fail-fast): when the rewrite of an identifier fails, the fold returns
\* that error and no value; the failing call is the last call of the fold and
\* the only failing one; and the identifiers rewritten are those of the tree,
\* in visitation order, up to and including the first that fails.
C3_FailFast ==
    (Done /\ ~out.ok) =>
        /\ out.val = Nil
        /\ Len(out.log) > 0
        /\ Last(out.log).m = "fold_ident"
        /\ Last(out.log).arg \in Unresolvable
        /\ out.err = Unresolved(Last(out.log).arg)
        /\ \A i \in 1..(Len(out.log) - 1) :
              ~(out.log[i].m = "fold_ident" /\ out.log[i].arg \in Unresolvable)
        /\ IdentLog(out.log) = ThroughFirstUnresolvable(IdentsIn(tree.root, tree.node, FALSE))

\* The second element of a three-element Derive fails: the third is never
\* rewritten.
C3_Witness ==
    /\ Done
    /\ ~out.ok
    /\ tree.root = "Expr"
    /\ tree.node.kind.tag = "ResolvedPipeline"
    /\ tree.node.kind.transforms[1].kind = [tag |-> "Derive",
                                            assigns |-> <<A, IdentExpr(<<"bad1">>), C>>]
    /\ IdentLog(out.log) = << <<"a">>, <<"bad1">> >>
    /\ out.err = Unresolved(<<"bad1">>)

---------------------------------------------------------------------------
(* C4 *)

\* C4 (visitation order): the identifiers a successful fold rewrites are
\* rewritten in the declared order of the fields that hold them and, in a
\* list, in list order; the order is a function of the tree.
C4_VisitationOrder ==
    (Done /\ out.ok) => IdentLog(out.log) = IdentsIn(tree.root, tree.node, FALSE)

C4_Witness ==
    /\ Done
    /\ out.ok
    /\ tree.root = "Expr"
    /\ tree.node.kind.tag = "Windowed"
    /\ IdentLog(out.log) = << <<"x">>, <<"a">>, <<"b">>, <<"c">> >>

---------------------------------------------------------------------------
(* C5, C6, C7: what a composite keeps and what it rewrites.  The rewrite   *)
(* of a child is what the pass returns for that child alone, and the calls *)
(* a fold makes for a child are the log of that fold of the child alone.   *)

Rewritten(e) == AstFold_fold_expr(pass, e, <<>>).val

RECURSIVE CallsForExprs(_)
CallsForExprs(exprs) ==
    IF exprs = <<>> THEN <<>>
    ELSE AstFold_fold_expr(pass, Head(exprs), <<>>).log \o CallsForExprs(Tail(exprs))

RECURSIVE CallsForPipelines(_)
CallsForPipelines(tables) ==
    IF tables = <<>> THEN <<>>
    ELSE AstFold_fold_transforms(pass, Head(tables).pipeline, <<>>).log
         \o CallsForPipelines(Tail(tables))

\* The expressions of the filled slots, in slot order.
Filled(slots) ==
    LET some == SelectSeq(slots, LAMBDA o : o.tag = "Some")
    IN  [i \in 1..Len(some) |-> some[i].val]

\* The values of the named arguments, in their order.
Values(named_args) == [i \in 1..Len(named_args) |-> named_args[i][2]]

\* The calls of a fold of an expression after those that lead to its kind's
\* own fold function (fold_expr, fold_expr_kind and the kind's method).
CallsOfChildren(log) == SubSeq(log, 4, Len(log))

\* C5 (curry slots): the fold of a FuncCurry keeps def_id, rewrites every
\* positional argument in place and maps the named slots one by one: None
\* stays None, Some(e) becomes Some of e rewritten; the only calls made are
\* for the arguments and then for the filled slots.
C5_CurrySlots ==
    (Done /\ out.ok /\ tree.root = "Expr" /\ tree.node.kind.tag = "FuncCurry") =>
        LET in == tree.node.kind.func_curry
            res == out.val.kind.func_curry
        IN  /\ out.val.kind.tag = "FuncCurry"
            /\ res.def_id = in.def_id
            /\ Len(res.args) = Len(in.args)
            /\ \A i \in DOMAIN in.args : res.args[i] = Rewritten(in.args[i])
            /\ Len(res.named_args) = Len(in.named_args)
            /\ \A i \in DOMAIN in.named_args :
                  IF in.named_args[i] = None
                  THEN res.named_args[i] = None
                  ELSE res.named_args[i] = Some(Rewritten(in.named_args[i].val))
            /\ CallsOfChildren(out.log) =
                  CallsForExprs(in.args) \o CallsForExprs(Filled(in.named_args))

C5_Witness ==
    /\ Done
    /\ out.ok
    /\ pass.ident = "mark"
    /\ tree.root = "Expr"
    /\ tree.node.kind.tag = "FuncCurry"
    /\ tree.node.kind.func_curry.named_args = <<None, Some(B), None>>
    /\ out.val.kind.func_curry.named_args = <<None, Some(IdentExpr(<<"b", "!">>)), None>>

\* C6 (function call): the fold of a FuncCall keeps name, on which fold_ident
\* is never called, rewrites every positional argument in place and every
\* named argument's value under the same name, in the same order.
C6_FuncCall ==
    (Done /\ out.ok /\ tree.root = "Expr" /\ tree.node.kind.tag = "FuncCall") =>
        LET in == tree.node.kind.func_call
            res == out.val.kind.func_call
        IN  /\ out.val.kind.tag = "FuncCall"
            /\ res.name = in.name
            /\ Len(res.args) = Len(in.args)
            /\ \A i \in DOMAIN in.args : res.args[i] = Rewritten(in.args[i])
            /\ Len(res.named_args) = Len(in.named_args)
            /\ \A i \in DOMAIN in.named_args :
                  res.named_args[i] = NamedArg(in.named_args[i][1], Rewritten(in.named_args[i][2]))
            /\ CallsOfChildren(out.log) =
                  CallsForExprs(in.args) \o CallsForExprs(Values(in.named_args))

C6_Witness ==
    /\ Done
    /\ out.ok
    /\ pass.ident = "resolve"
    /\ tree.root = "Expr"
    /\ tree.node.kind.tag = "FuncCall"
    /\ tree.node.kind.func_call.name \in Unresolvable
    /\ out.val.kind.func_call.named_args = <<NamedArg("n1", IdentExpr(<<"x", "!">>))>>

\* C7 (table identity): the fold of a Query keeps def, the number and order
\* of the tables and each table's id and name, on which fold_ident is never
\* called; it rewrites main_pipeline and then each table's pipeline.
C7_TableIdentity ==
    (Done /\ out.ok /\ tree.root = "Query") =>
        LET in == tree.node
            res == out.val
        IN  /\ res.def = in.def
            /\ res.main_pipeline = AstFold_fold_transforms(pass, in.main_pipeline, <<>>).val
            /\ Len(res.tables) = Len(in.tables)
            /\ \A i \in DOMAIN in.tables :
                  /\ res.tables[i].id = in.tables[i].id
                  /\ res.tables[i].name = in.tables[i].name
                  /\ res.tables[i].pipeline =
                        AstFold_fold_transforms(pass, in.tables[i].pipeline, <<>>).val
            /\ SubSeq(out.log, 2, Len(out.log)) =
                  AstFold_fold_transforms(pass, in.main_pipeline, <<>>).log
                  \o CallsForPipelines(in.tables)

C7_Witness ==
    /\ Done
    /\ out.ok
    /\ pass = Pass("resolve", "spy", "rewrite")
    /\ tree.root = "Query"
    /\ Len(out.val.tables) = 2
    /\ out.val.tables[1].name = <<"t1">>
    /\ out.val.tables[2].name = <<"t2">>
    /\ out.val.main_pipeline[1].kind.table.name = <<"t1", "!">>
    /\ tree.node.main_pipeline[2].kind.tag = "Select"
    /\ out.val.tables[2].pipeline[1].kind.tag = "Derive"

---------------------------------------------------------------------------
(* C8, C9, C10: which calls of the default recursion go through the trait. *)

\* The positions of the log at which the kind of a Type(Ty) expression is
\* folded, of a Range expression, and so on.
ExprKindCalls(log, tag) ==
    { i \in CallsOf(log, "fold_expr_kind") : log[i].arg.tag = tag }

TransformCalls(log, tags) ==
    { i \in CallsOf(log, "fold_transform") : log[i].arg.kind.tag \in tags }

\* C8 as stated: the type of a Type(Ty) expression is rewritten by a direct
\* call of the default type recursion, so that the override of a pass that
\* overrides fold_type is not invoked for it.
C8_TypeInExprBypassesHook ==
    Done => \A i \in ExprKindCalls(out.log, "Type") :
                /\ i < Len(out.log)
                /\ out.log[i + 1] = Call("fold_type", "direct", FALSE, out.log[i].arg.ty)

\* C8 (amended): the type of a Type(Ty) expression is rewritten through the
\* overridable method, fold.fold_type: the override of a pass that overrides
\* fold_type is invoked for it.
C8_TypeInExprThroughHook ==
    Done => \A i \in ExprKindCalls(out.log, "Type") :
                /\ i < Len(out.log)
                /\ out.log[i + 1] = Call("fold_type", "trait", pass.ty = "spy", out.log[i].arg.ty)

C8_Witness ==
    /\ Done
    /\ pass.ty = "spy"
    /\ tree.root = "Expr"
    /\ tree.node.kind.tag = "Type"
    /\ Len(out.log) > 2
    /\ out.log[3] = Call("fold_type", "trait", TRUE, tree.node.kind.ty)

\* C9 as stated: every Range the default recursion meets is rewritten through
\* an overridable range operation.
C9_RangeThroughHook ==
    Done => \A i \in CallsOf(out.log, "fold_range") : out.log[i].via = "trait"

\* C9 (amended): every Range the default recursion meets (a Range expression,
\* Windowed.window, the range of a Window and of a Take transform) is
\* rewritten by a direct call of the free function fold_range, which no pass
\* replaces; the bounds that are present are rewritten through the
\* overridable fold_expr, start before end.
C9_RangeDirect ==
    Done =>
        /\ \A i \in CallsOf(out.log, "fold_range") :
              LET range == out.log[i].arg
                  first == IF range.start # None THEN range.start ELSE range.end
              IN  /\ out.log[i].via = "direct"
                  /\ ~out.log[i].over
                  /\ first # None =>
                        /\ i < Len(out.log)
                        /\ out.log[i + 1] = Call("fold_expr", "trait", FALSE, first.val)
                  /\ (out.ok /\ range.start # None /\ range.end # None) =>
                        \E j \in (i + 2)..Len(out.log) :
                            out.log[j] = Call("fold_expr", "trait", FALSE, range.end.val)
        /\ \A i \in ExprKindCalls(out.log, "Range") :
              /\ i < Len(out.log)
              /\ out.log[i + 1] = Call("fold_range", "direct", FALSE, out.log[i].arg.range)
        /\ \A i \in TransformCalls(out.log, {"Window", "Take"}) :
              /\ i < Len(out.log)
              /\ out.log[i + 1] = Call("fold_range", "direct", FALSE, out.log[i].arg.kind.range)
        /\ out.ok =>
              \A i \in CallsOf(out.log, "fold_windowed") :
                  \E j \in (i + 1)..Len(out.log) :
                      out.log[j] = Call("fold_range", "direct", FALSE, out.log[i].arg.window[2])

C9_Witness ==
    /\ Done
    /\ out.ok
    /\ tree.root = "Query"
    /\ TransformCalls(out.log, {"Window"}) # {}
    /\ \E i \in CallsOf(out.log, "fold_range") :
          /\ out.log[i].via = "direct"
          /\ out.log[i].arg = Range(Some(IdentExpr(<<"x">>)), Some(B))

\* The types directly inside a type: the type argument of a Parameterized,
\* the members of an AnyOf.
NestedTypes(t) ==
    CASE t.tag = "Parameterized" -> <<t.ty>>
      [] t.tag = "AnyOf" -> t.tys
      [] OTHER -> <<>>

RECURSIVE SumNested(_, _)
SumNested(log, is) ==
    IF is = {} THEN 0
    ELSE LET i == CHOOSE k \in is : TRUE
         IN  Len(NestedTypes(log[i].arg)) + SumNested(log, is \ {i})

\* C10 (nested types bypass the hook): the overridable fold_type is called
\* only for the type of a Type(Ty) expression, once; the type argument of a
\* Parameterized and the members of an AnyOf are each rewritten once, by a
\* direct call of the default recursion that no override sees; the value
\* expression of a Parameterized is rewritten through fold_expr; a Literal
\* type and every other type form is returned as it is.
C10_NestedTypesBypassHook ==
    Done =>
        LET types == CallsOf(out.log, "fold_type")
            hooked == { i \in types : out.log[i].via = "trait" }
        IN  /\ \A i \in hooked :
                  /\ i - 1 \in ExprKindCalls(out.log, "Type")
                  /\ out.log[i].arg = out.log[i - 1].arg.ty
            /\ Cardinality(hooked) = Cardinality(ExprKindCalls(out.log, "Type"))
            /\ \A i \in types \ hooked : ~out.log[i].over
            /\ \A i \in types :
                  NestedTypes(out.log[i].arg) # <<>> =>
                      /\ i < Len(out.log)
                      /\ out.log[i + 1] =
                            Call("fold_type", "direct", FALSE, NestedTypes(out.log[i].arg)[1])
            /\ out.ok => Cardinality(types \ hooked) = SumNested(out.log, types)
            /\ out.ok =>
                  \A i \in types :
                      out.log[i].arg.tag = "Parameterized" =>
                          \E j \in (i + 2)..Len(out.log) :
                              out.log[j] = Call("fold_expr", "trait", FALSE, out.log[i].arg.param)
            /\ (out.ok /\ tree.root = "Expr" /\ tree.node.kind.tag = "Type"
                       /\ tree.node.kind.ty.tag = "Parameterized") =>
                  /\ out.val.kind.ty.ty = tree.node.kind.ty.ty
                  /\ out.val.kind.ty.param = Rewritten(tree.node.kind.ty.param)

C10_Witness ==
    /\ Done
    /\ out.ok
    /\ pass.ty = "spy"
    /\ tree.root = "Expr"
    /\ tree.node.kind.tag = "Type"
    /\ tree.node.kind.ty.tag = "AnyOf"
    /\ Cardinality({ i \in CallsOf(out.log, "fold_type") : out.log[i].over }) = 1
    /\ Cardinality({ i \in CallsOf(out.log, "fold_type") : out.log[i].via = "direct" }) = 4
    /\ out.val.kind.ty.tys[2].param = IdentExpr(<<"x", "!">>)

====
